---- MODULE Spec2Model ----
(***************************************************************************)
(* Model of examples/02_decoding/plot_haxby_anova_svm.py: the face-vs-house *)
(* decoding script.  The script is one straight-line program; every action *)
(* below is one statement (or one group of adjacent statements) of it, and  *)
(* pc is the position of the interpreter.  An exception raised by a library *)
(* call ends the script: pc becomes "raised" and err names the exception.   *)
(*                                                                         *)
(* Numerical results of library routines that depend on the image signal    *)
(* (which features the F-test ranks highest, the SVM weights, the accuracy  *)
(* of a fold) are not computed: the first two are carried by the data set   *)
(* (best_features, weights), the third is any count of correct predictions. *)
(* Rational numbers are pairs <<numerator, denominator>>.                   *)
(***************************************************************************)
EXTENDS Integers, Sequences, FiniteSets, TLC

\* ---------------------------------------------------------------- bounds
\* Longest label table (number of samples / time points) explored.
MaxSamples == 4
\* Largest chunk (session) number in a label table.
MaxSession == 2
\* Number of voxels of the (flattened) spatial grid.
NVox == 4
\* Number of features SelectKBest keeps: k=500 in the script, scaled down to
\* the size of the modelled grid.
k == 2

\* Default number of folds of cross_val_score when no cv is passed.
n_folds == 3

Conditions == {"face", "house", "rest"}
Targets == {"face", "house"}
Chunks == 0..MaxSession
Voxels == 1..NVox
WeightValues == {-1, 0, 1}

VARIABLES
    pc,                \* position in the script
    err,               \* "none", or the exception that ended the script
    labels,            \* the label table: rows [labels, chunks]
    mask_img,          \* the mask volume: [Voxels -> BOOLEAN]
    best_features,     \* data set: the k features the F-test ranks highest
    weights,           \* data set: the weights the SVM learns on them
    y,                 \* label sequence
    session,           \* session sequence
    condition_mask,    \* boolean selection sequence
    n_conditions,      \* number of distinct labels kept
    masker,            \* NiftiMasker object
    X,                 \* feature matrix: sequence of rows
    feature_selection, \* SelectKBest object
    svc,               \* SVC object
    y_pred,            \* predictions on the training rows
    cv,                \* LeaveOneLabelOut object
    score_folds,       \* the (train, test) splits cross_val_score iterated
    cv_scores,         \* per-fold accuracies
    classification_accuracy,
    chance_level,      \* the second number printed
    coef,              \* weight matrix on its way back to volume space
    weight_img,        \* the weight volume
    saved              \* content of haxby_face_vs_house.nii

vars == <<pc, err, labels, mask_img, best_features, weights, y,
          session, condition_mask, n_conditions, masker, X, feature_selection,
          svc, y_pred, cv, score_folds, cv_scores, classification_accuracy,
          chance_level, coef, weight_img, saved>>

\* ------------------------------------------------------- numpy primitives
Range(s) == {s[i] : i \in DOMAIN s}

\* np.nonzero of a boolean sequence: the indices that are true, ascending.
RECURSIVE nonzero(_)
nonzero(m) ==
    IF m = <<>> THEN <<>>
    ELSE LET r == nonzero(SubSeq(m, 1, Len(m) - 1))
         IN IF m[Len(m)] THEN Append(r, Len(m)) ELSE r

\* a[m] for a boolean index m of the same length: the rows where m is true.
BoolIndex(a, m) == [j \in 1..Len(nonzero(m)) |-> a[nonzero(m)[j]]]

\* Variant of the condition mask that forgets the second class.
mask_face_only(a) == [i \in 1..Len(a) |-> a[i] = "face"]

\* np.logical_or(y == b'face', y == b'house')
logical_or_face_house(a) == [i \in 1..Len(a) |-> a[i] = "face" \/ a[i] = "house"]

\* np.size(np.unique(a))
size_unique(a) == Cardinality(Range(a))

\* A finite set of integers as an ascending sequence.
RECURSIVE Sorted(_)
Sorted(S) ==
    IF S = {} THEN <<>>
    ELSE LET mx == CHOOSE x \in S : \A z \in S : z <= x
         IN Append(Sorted(S \ {mx}), mx)

\* ------------------------------------------------------------ the objects
Unfitted == [fitted |-> FALSE, param |-> <<>>, train |-> <<>>]
NoMasker == [fitted |-> FALSE, mask |-> <<>>]
NoCV == [built |-> FALSE, labels |-> <<>>, n_unique_labels |-> 0]

\* The in-mask voxels in array order: feature f of a masked row is voxel
\* InMask(m)[f].
InMask(m) == Sorted({v \in DOMAIN m : m[v]})

\* NiftiMasker.fit_transform: one row per time point, one column per in-mask
\* voxel.  The (smoothed, standardized) signal values are not interpreted; a
\* row records the sample it was computed from and the voxels of its columns.
masker_fit_transform(m, n_samples) ==
    [t \in 1..n_samples |-> [sample |-> t, voxels |-> InMask(m)]]

\* NiftiMasker.inverse_transform of a 2D array: one volume per row, the row's
\* values at the in-mask voxels and zero elsewhere.
masker_inverse_transform(mk, a) ==
    IF ~mk.fitted THEN [err |-> "NotFittedError", img |-> <<>>]
    ELSE IF \E r \in DOMAIN a : Len(a[r]) # Len(InMask(mk.mask))
    THEN [err |-> "ValueError", img |-> <<>>]
    ELSE [err |-> "none",
          img |-> [r \in DOMAIN a |->
                    [v \in DOMAIN mk.mask |->
                      IF mk.mask[v]
                      THEN a[r][CHOOSE f \in 1..Len(InMask(mk.mask)) :
                                    InMask(mk.mask)[f] = v]
                      ELSE 0]]]

\* a[idx] for a sequence idx of positions.
Take(a, idx) == [j \in 1..Len(idx) |-> a[idx[j]]]

\* Pipeline([('anova', SelectKBest(f_classif, k)), ('svc', SVC)]).fit(Xa, ya)
\* on the pipeline state p = [anova, svc].  SelectKBest rejects an empty
\* array and k > n_features; SVC rejects a single class (the selector is
\* fitted by then).  The learned state records the rows it was learned from;
\* its parameters are the ones the data set carries (the parameters of a fit
\* on a fold never leave cross_val_score, which reports accuracies only).
pipeline_fit(p, Xa, ya) ==
    LET rows == [i \in 1..Len(Xa) |-> Xa[i].sample]
        n_features == Len(Xa[1].voxels)
        sel == [fitted |-> TRUE,
                param |-> [f \in 1..n_features |-> f \in best_features],
                train |-> rows]
    IN IF Len(Xa) = 0 THEN [err |-> "ValueError", anova |-> p.anova, svc |-> p.svc]
       ELSE IF k > n_features
       THEN [err |-> "ValueError", anova |-> p.anova, svc |-> p.svc]
       ELSE IF size_unique(ya) < 2
       THEN [err |-> "ValueError", anova |-> sel, svc |-> p.svc]
       ELSE [err |-> "none", anova |-> sel,
             svc |-> [fitted |-> TRUE, param |-> <<weights>>, train |-> rows]]

\* Pipeline.predict(Xa): one prediction per row; the predicted classes are not
\* interpreted, a prediction is named by the sample it is made for.
pipeline_predict(p, Xa) ==
    IF ~p.anova.fitted \/ ~p.svc.fitted THEN [err |-> "NotFittedError", pred |-> <<>>]
    ELSE IF Len(Xa) = 0 THEN [err |-> "ValueError", pred |-> <<>>]
    ELSE [err |-> "none", pred |-> [i \in 1..Len(Xa) |-> Xa[i].sample]]

\* Variant of the selector's inverse transform that pads the array with zeros
\* on the right instead of scattering it over the selected columns.
selector_inverse_transform_padded(sel, a) ==
    IF ~sel.fitted THEN [err |-> "NotFittedError", out |-> <<>>]
    ELSE [err |-> "none",
          out |-> [r \in DOMAIN a |->
                    [f \in DOMAIN sel.param |->
                      IF f <= Len(a[r]) THEN a[r][f] ELSE 0]]]

\* SelectKBest.inverse_transform(a): Xt = zeros((rows, n_features));
\* Xt[:, support] = a.
selector_inverse_transform(sel, a) ==
    IF ~sel.fitted THEN [err |-> "NotFittedError", out |-> <<>>]
    ELSE IF \E r \in DOMAIN a : Len(a[r]) # Len(nonzero(sel.param))
    THEN [err |-> "ValueError", out |-> <<>>]
    ELSE [err |-> "none",
          out |-> [r \in DOMAIN a |->
                    [f \in DOMAIN sel.param |->
                      IF sel.param[f]
                      THEN a[r][CHOOSE j \in 1..Len(nonzero(sel.param)) :
                                    nonzero(sel.param)[j] = f]
                      ELSE 0]]]

\* ------------------------------------------------------ cross-validation
\* KFold(n, n_folds) without shuffling: contiguous blocks, the first
\* n % n_folds of them one longer.  The test positions of fold j (1-based).
kfold_test(n, j) ==
    LET base == n \div n_folds
        extra == n % n_folds
        start == (j - 1) * base + (IF j - 1 < extra THEN j - 1 ELSE extra)
        size == base + (IF j <= extra THEN 1 ELSE 0)
    IN (start + 1)..(start + size)

\* StratifiedKFold(ya, n_folds): each class is split by its own
\* KFold(max(count, n_folds), n_folds), trimmed to the class's size.
stratified_test(ya, j) ==
    {i \in 1..Len(ya) :
        LET same == {h \in 1..Len(ya) : ya[h] = ya[i]}
            rank == Cardinality({h \in same : h <= i})
            cnt == Cardinality(same)
        IN rank \in kfold_test(IF cnt > n_folds THEN cnt ELSE n_folds, j)}

\* check_cv(None, X, y, classifier): 3 folds, stratified when the library
\* build counts the pipeline as a classifier (scikit-learn 0.17 on), plain
\* KFold otherwise.  A sequence of [train, test] position sequences.
default_cv(ya, stratified) ==
    [j \in 1..n_folds |->
        LET test == IF stratified THEN stratified_test(ya, j)
                    ELSE kfold_test(Len(ya), j)
        IN [train |-> Sorted((1..Len(ya)) \ test), test |-> Sorted(test)]]

\* LeaveOneLabelOut(l): one fold per distinct value of l.
LeaveOneLabelOut(l) ==
    [built |-> TRUE, labels |-> l, n_unique_labels |-> Cardinality(Range(l))]

\* Variant of the grouping that leaves the session numbers as they are.
floor_div_none(s) == s

\* session // 2
floor_div_2(s) == [i \in 1..Len(s) |-> s[i] \div 2]

\* Variant of clone that hands back the estimator itself, so a fold is
\* fitted in place.
clone_shared(heap, id) == [heap |-> heap, id |-> id]

\* sklearn.base.clone(estimator): a new unfitted object with the same
\* parameters.  Objects live in a heap: id -> pipeline state.
clone(heap, id) ==
    LET new == Cardinality(DOMAIN heap)
    IN [heap |-> heap @@ (new :> [anova |-> Unfitted, svc |-> Unfitted]),
        id |-> new]

\* _fit_and_score(clone(estimator), X, y, scorer, train, test): fit the clone
\* on the training rows and score it on the test rows.
fit_and_score(heap, id, Xa, ya, fold) ==
    LET c == clone(heap, id)
        r == pipeline_fit(c.heap[c.id], Take(Xa, fold.train), Take(ya, fold.train))
        h == [c.heap EXCEPT ![c.id] = [anova |-> r.anova, svc |-> r.svc]]
        q == pipeline_predict(h[c.id], Take(Xa, fold.test))
    IN [err |-> IF r.err # "none" THEN r.err ELSE q.err, heap |-> h]

\* The loop of cross_val_score over the folds, from fold j on: the heap after
\* the last fold run, and the first exception raised.
RECURSIVE cv_loop(_, _, _, _, _, _)
cv_loop(heap, id, Xa, ya, folds, j) ==
    IF j > Len(folds) THEN [err |-> "none", heap |-> heap]
    ELSE LET s == fit_and_score(heap, id, Xa, ya, folds[j])
         IN IF s.err # "none" THEN s
            ELSE cv_loop(s.heap, id, Xa, ya, folds, j + 1)

\* cross_val_score(estimator, X, y) with the default cv: the exception (if
\* any), the folds used, and the state of the estimator object passed in
\* once the call is over.
cross_val_score(p, Xa, ya, stratified) ==
    IF n_folds > Len(ya)
    THEN [err |-> "ValueError", folds |-> <<>>, estimator |-> p]
    ELSE LET folds == default_cv(ya, stratified)
             run == cv_loop(0 :> p, 0, Xa, ya, folds, 1)
         IN [err |-> run.err, folds |-> folds, estimator |-> run.heap[0]]

\* ---------------------------------------------------------- arithmetic
RatAdd(a, b) == <<a[1] * b[2] + b[1] * a[2], a[2] * b[2]>>

RECURSIVE rat_sum(_)
rat_sum(s) == IF s = <<>> THEN <<0, 1>> ELSE RatAdd(rat_sum(Tail(s)), Head(s))

\* Variant of the summary statistic: the sum of the scores.
mean_as_sum(s) == rat_sum(s)

\* np.mean of a sequence of rationals.
mean(s) == <<rat_sum(s)[1], rat_sum(s)[2] * Len(s)>>

\* ------------------------------------------------------------ the script
inputs == <<labels, mask_img, best_features, weights>>

\* Lines 25-27: y = labels['labels']; session = labels['chunks'].
LoadLabels ==
    /\ pc = "load"
    /\ y' = [i \in 1..Len(labels) |-> labels[i].labels]
    /\ session' = [i \in 1..Len(labels) |-> labels[i].chunks]
    /\ pc' = "condition_mask"
    /\ UNCHANGED <<err, inputs, condition_mask, n_conditions, masker, X,
                   feature_selection, svc, y_pred, cv, score_folds, cv_scores,
                   classification_accuracy, chance_level, coef, weight_img, saved>>

\* Line 30: condition_mask = np.logical_or(y == b'face', y == b'house').
ComputeConditionMask ==
    /\ pc = "condition_mask"
    /\ condition_mask' = logical_or_face_house(y)
    /\ pc' = "restrict_y"
    /\ UNCHANGED <<err, inputs, y, session, n_conditions, masker, X,
                   feature_selection, svc, y_pred, cv, score_folds, cv_scores,
                   classification_accuracy, chance_level, coef, weight_img, saved>>

\* Line 31: y = y[condition_mask].
RestrictY ==
    /\ pc = "restrict_y"
    /\ y' = BoolIndex(y, condition_mask)
    /\ pc' = "n_conditions"
    /\ UNCHANGED <<err, inputs, session, condition_mask, n_conditions, masker, X,
                   feature_selection, svc, y_pred, cv, score_folds, cv_scores,
                   classification_accuracy, chance_level, coef, weight_img, saved>>

\* Variant of line 34 that counts the classes of the unfiltered label column.
CountConditions_unfiltered ==
    /\ pc = "n_conditions"
    /\ n_conditions' = size_unique([i \in 1..Len(labels) |-> labels[i].labels])
    /\ pc' = "masker"
    /\ UNCHANGED <<err, inputs, y, session, condition_mask, masker, X,
                   feature_selection, svc, y_pred, cv, score_folds, cv_scores,
                   classification_accuracy, chance_level, coef, weight_img, saved>>

\* Line 34: n_conditions = np.size(np.unique(y)).
CountConditions ==
    /\ pc = "n_conditions"
    /\ n_conditions' = size_unique(y)
    /\ pc' = "masker"
    /\ UNCHANGED <<err, inputs, y, session, condition_mask, masker, X,
                   feature_selection, svc, y_pred, cv, score_folds, cv_scores,
                   classification_accuracy, chance_level, coef, weight_img, saved>>

\* Lines 44-48: masker = NiftiMasker(mask_img=...); X = masker.fit_transform(func).
\* The functional volume has one time point per row of the label table.
FitTransformMasker ==
    /\ pc = "masker"
    /\ masker' = [fitted |-> TRUE, mask |-> mask_img]
    /\ X' = masker_fit_transform(mask_img, Len(labels))
    /\ pc' = "restrict_X"
    /\ UNCHANGED <<err, inputs, y, session, condition_mask, n_conditions,
                   feature_selection, svc, y_pred, cv, score_folds, cv_scores,
                   classification_accuracy, chance_level, coef, weight_img, saved>>

\* Variant of line 50 that leaves the feature matrix unfiltered.
RestrictX_unfiltered ==
    /\ pc = "restrict_X"
    /\ pc' = "restrict_session"
    /\ UNCHANGED <<err, inputs, y, session, condition_mask, n_conditions, masker, X,
                   feature_selection, svc, y_pred, cv, score_folds, cv_scores,
                   classification_accuracy, chance_level, coef, weight_img, saved>>

\* Line 50: X = X[condition_mask].
RestrictX ==
    /\ pc = "restrict_X"
    /\ X' = BoolIndex(X, condition_mask)
    /\ pc' = "restrict_session"
    /\ UNCHANGED <<err, inputs, y, session, condition_mask, n_conditions, masker,
                   feature_selection, svc, y_pred, cv, score_folds, cv_scores,
                   classification_accuracy, chance_level, coef, weight_img, saved>>

\* Variant of line 51 that leaves the session sequence unfiltered.
RestrictSession_unfiltered ==
    /\ pc = "restrict_session"
    /\ pc' = "fit"
    /\ UNCHANGED <<err, inputs, y, session, condition_mask, n_conditions, masker, X,
                   feature_selection, svc, y_pred, cv, score_folds, cv_scores,
                   classification_accuracy, chance_level, coef, weight_img, saved>>

\* Line 51: session = session[condition_mask].
RestrictSession ==
    /\ pc = "restrict_session"
    /\ session' = BoolIndex(session, condition_mask)
    /\ pc' = "fit"
    /\ UNCHANGED <<err, inputs, y, condition_mask, n_conditions, masker, X,
                   feature_selection, svc, y_pred, cv, score_folds, cv_scores,
                   classification_accuracy, chance_level, coef, weight_img, saved>>

\* Variant of the script without the fit of line 76.
FitDecoder_skipped ==
    /\ pc = "fit"
    /\ pc' = "predict"
    /\ UNCHANGED <<err, inputs, y, session, condition_mask, n_conditions, masker, X,
                   feature_selection, svc, y_pred, cv, score_folds, cv_scores,
                   classification_accuracy, chance_level, coef, weight_img, saved>>

\* Line 76: anova_svc.fit(X, y).  anova_svc holds feature_selection and svc.
FitDecoder ==
    /\ pc = "fit"
    /\ LET r == pipeline_fit([anova |-> feature_selection, svc |-> svc], X, y)
       IN /\ feature_selection' = r.anova
          /\ svc' = r.svc
          /\ err' = r.err
          /\ pc' = IF r.err = "none" THEN "predict" ELSE "raised"
    /\ UNCHANGED <<inputs, y, session, condition_mask, n_conditions, masker, X,
                   y_pred, cv, score_folds, cv_scores,
                   classification_accuracy, chance_level, coef, weight_img, saved>>

\* Line 77: y_pred = anova_svc.predict(X).
Predict ==
    /\ pc = "predict"
    /\ LET r == pipeline_predict([anova |-> feature_selection, svc |-> svc], X)
       IN /\ y_pred' = r.pred
          /\ err' = r.err
          /\ pc' = IF r.err = "none" THEN "cv" ELSE "raised"
    /\ UNCHANGED <<inputs, y, session, condition_mask, n_conditions, masker, X,
                   feature_selection, svc, cv, score_folds, cv_scores,
                   classification_accuracy, chance_level, coef, weight_img, saved>>

\* Line 87: cv = LeaveOneLabelOut(session // 2).
BuildCV ==
    /\ pc = "cv"
    /\ cv' = LeaveOneLabelOut(floor_div_2(session))
    /\ pc' = "cv_scores"
    /\ UNCHANGED <<err, inputs, y, session, condition_mask, n_conditions, masker, X,
                   feature_selection, svc, y_pred, score_folds, cv_scores,
                   classification_accuracy, chance_level, coef, weight_img, saved>>

\* Line 90: cv_scores = cross_val_score(anova_svc, X, y).  No cv is passed.
\* The default splitter is the one of the library build in use.  The accuracy
\* of a fold is the fraction of its test rows predicted right.
CrossValScore ==
    /\ pc = "cv_scores"
    /\ \E r \in {cross_val_score([anova |-> feature_selection, svc |-> svc], X, y, st) :
                    st \in BOOLEAN} :
          /\ feature_selection' = r.estimator.anova
          /\ svc' = r.estimator.svc
          /\ err' = r.err
          /\ score_folds' = r.folds
          /\ IF r.err = "none"
             THEN /\ \E correct \in [1..Len(r.folds) -> 0..Len(y)] :
                        /\ \A j \in 1..Len(r.folds) :
                               correct[j] <= Len(r.folds[j].test)
                        /\ cv_scores' = [j \in 1..Len(r.folds) |->
                               <<correct[j], Len(r.folds[j].test)>>]
                  /\ pc' = "report"
             ELSE /\ cv_scores' = cv_scores
                  /\ pc' = "raised"
    /\ UNCHANGED <<inputs, y, session, condition_mask, n_conditions, masker, X,
                   y_pred, cv, classification_accuracy, chance_level, coef,
                   weight_img, saved>>

\* Lines 93-97: classification_accuracy = np.mean(cv_scores); print it with
\* the chance level 1. / n_conditions.
Report ==
    /\ pc = "report"
    /\ classification_accuracy' = mean(cv_scores)
    /\ IF n_conditions = 0
       THEN /\ err' = "ZeroDivisionError"
            /\ pc' = "raised"
            /\ chance_level' = chance_level
       ELSE /\ err' = err
            /\ pc' = "coef"
            /\ chance_level' = <<1, n_conditions>>
    /\ UNCHANGED <<inputs, y, session, condition_mask, n_conditions, masker, X,
                   feature_selection, svc, y_pred, cv, score_folds, cv_scores,
                   coef, weight_img, saved>>

\* Line 105: coef = svc.coef_.
ReadCoef ==
    /\ pc = "coef"
    /\ IF svc.fitted
       THEN coef' = svc.param /\ err' = err /\ pc' = "inverse_selection"
       ELSE coef' = coef /\ err' = "NotFittedError" /\ pc' = "raised"
    /\ UNCHANGED <<inputs, y, session, condition_mask, n_conditions, masker, X,
                   feature_selection, svc, y_pred, cv, score_folds, cv_scores,
                   classification_accuracy, chance_level, weight_img, saved>>

\* Line 107: coef = feature_selection.inverse_transform(coef).
InverseSelection ==
    /\ pc = "inverse_selection"
    /\ LET r == selector_inverse_transform(feature_selection, coef)
       IN /\ coef' = IF r.err = "none" THEN r.out ELSE coef
          /\ err' = r.err
          /\ pc' = IF r.err = "none" THEN "inverse_masking" ELSE "raised"
    /\ UNCHANGED <<inputs, y, session, condition_mask, n_conditions, masker, X,
                   feature_selection, svc, y_pred, cv, score_folds, cv_scores,
                   classification_accuracy, chance_level, weight_img, saved>>

\* Line 109: weight_img = masker.inverse_transform(coef).
InverseMasking ==
    /\ pc = "inverse_masking"
    /\ LET r == masker_inverse_transform(masker, coef)
       IN /\ weight_img' = r.img
          /\ err' = r.err
          /\ pc' = IF r.err = "none" THEN "save" ELSE "raised"
    /\ UNCHANGED <<inputs, y, session, condition_mask, n_conditions, masker, X,
                   feature_selection, svc, y_pred, cv, score_folds, cv_scores,
                   classification_accuracy, chance_level, coef, saved>>

\* Lines 118-121: plot the map and weight_img.to_filename(...).
SaveWeights ==
    /\ pc = "save"
    /\ saved' = weight_img
    /\ pc' = "done"
    /\ UNCHANGED <<err, inputs, y, session, condition_mask, n_conditions, masker, X,
                   feature_selection, svc, y_pred, cv, score_folds, cv_scores,
                   classification_accuracy, chance_level, coef, weight_img>>

Next ==
    \/ LoadLabels
    \/ ComputeConditionMask
    \/ RestrictY
    \/ CountConditions
    \/ FitTransformMasker
    \/ RestrictX
    \/ RestrictSession
    \/ FitDecoder
    \/ Predict
    \/ BuildCV
    \/ CrossValScore
    \/ Report
    \/ ReadCoef
    \/ InverseSelection
    \/ InverseMasking
    \/ SaveWeights

\* ------------------------------------------------------- initial states
\* The state before line 25: nothing computed, no object fitted.
Fresh ==
    /\ pc = "load"
    /\ err = "none"
    /\ y = <<>>
    /\ session = <<>>
    /\ condition_mask = <<>>
    /\ n_conditions = 0
    /\ masker = NoMasker
    /\ X = <<>>
    /\ feature_selection = Unfitted
    /\ svc = Unfitted
    /\ y_pred = <<>>
    /\ cv = NoCV
    /\ score_folds = <<>>
    /\ cv_scores = <<>>
    /\ classification_accuracy = <<0, 1>>
    /\ chance_level = <<0, 1>>
    /\ coef = <<>>
    /\ weight_img = <<>>
    /\ saved = <<>>

\* Label tables of 1..MaxSamples rows; chunks are numbered in acquisition
\* order, so they never decrease down the table.
LabelTables ==
    UNION {{t \in [1..n -> [labels : Conditions, chunks : Chunks]] :
                \A i \in 1..(n - 1) : t[i].chunks <= t[i + 1].chunks}
           : n \in 1..MaxSamples}

\* The end-to-end scenario of the spec: (face, 0), (house, 0), (face, 1),
\* (house, 1).
Scenario ==
    <<[labels |-> "face", chunks |-> 0], [labels |-> "house", chunks |-> 0],
      [labels |-> "face", chunks |-> 1], [labels |-> "house", chunks |-> 1]>>

\* The scenario with one more row, of any condition, put in at any position
\* (in the session of its neighbours): the shortest tables in which rows are
\* dropped and every fold of the cross-validation can still be fitted.
ExtendedScenarios ==
    {SubSeq(Scenario, 1, p - 1)
        \o <<[labels |-> c, chunks |-> IF p <= 2 THEN 0 ELSE 1]>>
        \o SubSeq(Scenario, p, 4) : p \in 1..5, c \in Conditions}

\* Every label table, over one image data set: the first voxel lies outside
\* the mask, the first k in-mask features rank highest, with weights 1..k.
Init ==
    /\ labels \in LabelTables \cup ExtendedScenarios
    /\ mask_img = [v \in Voxels |-> v > 1]
    /\ best_features = 1..k
    /\ weights = [j \in 1..k |-> j]
    /\ Fresh

Spec == Init /\ [][Next]_vars

\* The scenario's label table over every image data set: every mask, every
\* choice of k best features among the in-mask ones, every weight vector.
InitExport ==
    /\ labels = Scenario
    /\ mask_img \in [Voxels -> BOOLEAN]
    /\ best_features \in {S \in SUBSET (1..Len(InMask(mask_img))) :
                             Cardinality(S) = k \/ (S = {} /\ Len(InMask(mask_img)) < k)}
    /\ weights \in [1..k -> WeightValues]
    /\ Fresh

SpecExport == InitExport /\ [][Next]_vars

\* ------------------------------------------------------------ properties
\* Positions of the script after the three filtering statements (lines 31,
\* 50, 51) have run.
Filtered ==
    pc \notin {"load", "condition_mask", "restrict_y", "n_conditions", "masker",
               "restrict_X", "restrict_session"}

\* Positions after cross_val_score has returned.
Scored == pc \in {"report", "coef", "inverse_selection", "inverse_masking",
                  "save", "done"}

\* Positions after the report has been printed.
Reported == pc \in {"coef", "inverse_selection", "inverse_masking", "save", "done"}

\* The rows of the label table whose label is face or house.
KeptSamples == {t \in 1..Len(labels) : labels[t].labels \in Targets}

\* The j-th smallest element of a set of integers.
Nth(S, j) == CHOOSE t \in S : Cardinality({u \in S : u <= t}) = j

\* The position of x in S, counting from the smallest.
RankIn(S, x) == Cardinality({z \in S : z <= x})

\* C1: after the filtering statements, y, session and X have the same number
\* of rows, and row i of each comes from the same row of the label table: the
\* i-th row, in table order, whose label is face or house.
C1_FilteringAligned ==
    Filtered =>
        /\ Len(condition_mask) = Len(labels)
        /\ Len(y) = Len(session)
        /\ Len(session) = Len(X)
        /\ Len(X) = Cardinality(KeptSamples)
        /\ \A i \in 1..Len(X) :
              /\ X[i].sample = Nth(KeptSamples, i)
              /\ y[i] = labels[X[i].sample].labels
              /\ session[i] = labels[X[i].sample].chunks

\* A filtered state in which a dropped row precedes kept rows of two
\* different sessions, so the kept rows have moved up.
C1_Witness ==
    /\ Filtered
    /\ Len(X) >= 2
    /\ X[1].sample # 1
    /\ session[1] # session[Len(session)]
    /\ labels[1].chunks # session[1]

\* C2: the condition mask is true exactly at the rows labelled face or house;
\* the filtered labels are all face or house, and are the labels of exactly
\* those rows, in table order.
C2_MaskSelectsTargets ==
    /\ pc \notin {"load", "condition_mask"} =>
          /\ Len(condition_mask) = Len(labels)
          /\ \A i \in 1..Len(labels) :
                condition_mask[i] <=> labels[i].labels \in Targets
    /\ pc \notin {"load", "condition_mask", "restrict_y"} =>
          /\ \A i \in 1..Len(y) : y[i] \in Targets
          /\ Len(y) = Cardinality(KeptSamples)
          /\ \A i \in 1..Len(y) : y[i] = labels[Nth(KeptSamples, i)].labels

\* The labels have just been filtered: a house row, then a dropped row, then
\* a face row.
C2_Witness ==
    /\ pc = "n_conditions"
    /\ Len(labels) >= 3
    /\ labels[1].labels = "house"
    /\ labels[2].labels = "rest"
    /\ labels[3].labels = "face"
    /\ y[1] = "house"
    /\ y[2] = "face"

\* C3: in every fold cross_val_score used for the reported accuracy, no
\* session group (session // 2) has rows both in the training partition and
\* in the held-out partition.
C3_FoldsSeparateSessionGroups ==
    Scored =>
        \A j \in 1..Len(score_folds) :
            \A a \in Range(score_folds[j].train), b \in Range(score_folds[j].test) :
                session[a] \div 2 # session[b] \div 2

\* Product of the denominators of a sequence of rationals.
RECURSIVE DenProduct(_)
DenProduct(s) == IF s = <<>> THEN 1 ELSE Head(s)[2] * DenProduct(Tail(s))

\* Sum of the numerators of a sequence of rationals, brought to the common
\* denominator d.
RECURSIVE NumSum(_, _)
NumSum(s, d) ==
    IF s = <<>> THEN 0 ELSE Head(s)[1] * (d \div Head(s)[2]) + NumSum(Tail(s), d)

\* C4: cross-validation yields one score per fold of the fold count in force
\* (n_folds), each the accuracy on that fold's test rows, and the reported
\* accuracy is their arithmetic mean: accuracy * number of scores = sum of the
\* scores.
C4_OneScorePerFoldAndMean ==
    Reported =>
        /\ Len(cv_scores) = n_folds
        /\ Len(cv_scores) = Len(score_folds)
        /\ \A j \in 1..Len(cv_scores) :
              /\ cv_scores[j][2] = Len(score_folds[j].test)
              /\ cv_scores[j][2] > 0
              /\ cv_scores[j][1] \in 0..cv_scores[j][2]
        /\ classification_accuracy[2] > 0
        /\ classification_accuracy[1] * Len(cv_scores) * DenProduct(cv_scores)
              = classification_accuracy[2] * NumSum(cv_scores, DenProduct(cv_scores))

\* The accuracy has been reported from folds of different sizes with three
\* different scores: 1/2, 1 and 0.
C4_Witness ==
    /\ Reported
    /\ cv_scores[1] = <<1, 2>>
    /\ cv_scores[2] = <<1, 1>>
    /\ cv_scores[3] = <<0, 1>>

\* C5 as stated: on the scenario, filtering keeps all 4 rows and the splitter
\* the script builds has exactly 2 folds.
C5_ScenarioTwoFolds ==
    (labels = Scenario /\ cv.built) =>
        /\ Len(y) = 4 /\ Len(session) = 4 /\ Len(X) = 4
        /\ cv.n_unique_labels = 2

\* C5 amended: on the scenario, filtering keeps all 4 rows and the splitter
\* the script builds, LeaveOneLabelOut(session // 2), has exactly 1 fold:
\* sessions 0 and 1 fall into the same group 0.
C5_ScenarioOneFold ==
    (labels = Scenario /\ cv.built) =>
        /\ Len(y) = 4 /\ Len(session) = 4 /\ Len(X) = 4
        /\ cv.labels = <<0, 0, 0, 0>>
        /\ cv.n_unique_labels = 1

\* The scenario's run has built its splitter.
C5_Witness ==
    /\ labels = Scenario
    /\ pc = "cv_scores"
    /\ cv.built
    /\ session = <<0, 0, 1, 1>>

\* C6: n_conditions is the number of distinct values of the filtered labels,
\* the chance level reported is 1 / that number, and it is 1/2 whenever both
\* a face row and a house row are present.
C6_ChanceLevel ==
    /\ pc \notin {"load", "condition_mask", "restrict_y", "n_conditions"} =>
          n_conditions = Cardinality({labels[t].labels : t \in KeptSamples})
    /\ Reported =>
          /\ chance_level = <<1, Cardinality({y[i] : i \in 1..Len(y)})>>
          /\ ({"face", "house"} \subseteq {labels[t].labels : t \in 1..Len(labels)}
                => chance_level = <<1, 2>>)

\* The chance level has been reported for a table that also holds rest rows.
C6_Witness ==
    /\ Reported
    /\ chance_level = <<1, 2>>
    /\ \E t \in 1..Len(labels) : labels[t].labels = "rest"

\* The rows of the filtered feature matrix, by the sample each comes from.
AllRows == [i \in 1..Len(X) |-> X[i].sample]

\* C7: no predict, coef_ read or inverse_transform is reached on an unfitted
\* stage: NotFittedError is never raised; when the script is about to predict,
\* to read the weights or to invert the selection, the selector and the
\* classifier have been fitted on (X, y); when it is about to invert the
\* masking, the masker has been fitted.
C7_FitBeforeUse ==
    /\ err # "NotFittedError"
    /\ pc \in {"predict", "coef", "inverse_selection"} =>
          /\ feature_selection.fitted /\ feature_selection.train = AllRows
          /\ svc.fitted /\ svc.train = AllRows
    /\ pc \in {"restrict_X", "inverse_masking"} => masker.fitted
    /\ y_pred # <<>> => (feature_selection.fitted /\ svc.fitted)
    /\ weight_img # <<>> => (masker.fitted /\ feature_selection.fitted)

\* The script has run to its end: every stage has been used.
C7_Witness ==
    /\ pc = "done"
    /\ err = "none"
    /\ y_pred # <<>>
    /\ saved # <<>>

\* The in-mask voxels of the mask volume.
MaskVoxels == {v \in Voxels : mask_img[v]}

\* C8: the weight volume has the mask's shape (one value per voxel of the
\* grid); a voxel outside the mask is zero; an in-mask voxel whose feature is
\* not among the k selected is zero; a selected voxel carries the weight of
\* its feature.
C8_WeightVolume ==
    pc \in {"save", "done"} =>
        /\ Len(weight_img) = 1
        /\ DOMAIN weight_img[1] = DOMAIN mask_img
        /\ \A v \in Voxels :
              LET f == RankIn(MaskVoxels, v)
              IN weight_img[1][v] =
                    IF v \in MaskVoxels /\ f \in best_features
                    THEN weights[RankIn(best_features, f)]
                    ELSE 0

\* A weight volume with a voxel outside the mask, an in-mask voxel that was
\* not selected, and two selected voxels with different non-zero weights.
C8_Witness ==
    /\ pc = "done"
    /\ \E v \in Voxels : ~mask_img[v]
    /\ \E v \in MaskVoxels : RankIn(MaskVoxels, v) \notin best_features
    /\ \E v, w \in Voxels :
          /\ saved[1][v] # 0 /\ saved[1][w] # 0 /\ saved[1][v] # saved[1][w]

\* C9: when no row is labelled face or house, the script reaches the fit
\* without an error, the condition mask is all false, and y, session and X
\* have zero rows there.
C9_NoTargetRows ==
    KeptSamples = {} =>
        /\ pc \notin {"load", "condition_mask"} =>
              \A i \in 1..Len(condition_mask) : ~condition_mask[i]
        /\ pc \in {"load", "condition_mask", "restrict_y", "n_conditions", "masker",
                   "restrict_X", "restrict_session", "fit"} => err = "none"
        /\ pc = "fit" => (Len(y) = 0 /\ Len(session) = 0 /\ Len(X) = 0)

\* A table of several rows, none face or house, has reached the fit.
C9_Witness ==
    /\ KeptSamples = {}
    /\ Len(labels) >= 2
    /\ pc = "fit"
    /\ err = "none"
    /\ X = <<>>

\* C10: from the fit on, the selector and the classifier hold the state
\* learned on the full filtered data (X, y); in particular cross_val_score
\* leaves it as the fit made it, and the weights read for the export are the
\* ones of that fit.
C10_LearnedStateKept ==
    /\ (pc \in {"predict", "cv", "cv_scores"} \/ Scored) =>
          /\ svc.fitted /\ svc.train = AllRows /\ svc.param = <<weights>>
          /\ feature_selection.fitted /\ feature_selection.train = AllRows
    /\ pc = "inverse_selection" => coef = svc.param

\* The weights are about to be inverse-transformed, after a cross-validation
\* that fitted three folds.
C10_Witness ==
    /\ pc = "inverse_selection"
    /\ err = "none"
    /\ Len(score_folds) = 3
    /\ Len(cv_scores) = 3

====
